---- MODULE Spec2Model ----
(***************************************************************************)
(* ProposalHQ: the generation endpoint (src/app/api/generate/route.ts),    *)
(* the payment-provider webhook (src/app/api/stripe/webhook/route.ts) and  *)
(* the client-side profile initialisation (src/unnamed/part_002), over the *)
(* two tables of the Relational Store, "profiles" and "proposals".         *)
(*                                                                         *)
(* JavaScript null/undefined is written "null" for strings, <<>> for text  *)
(* and timestamps, 0 for row ids.  Text that the code trims is a sequence  *)
(* of characters.                                                          *)
(***************************************************************************)
EXTENDS Integers, Sequences, FiniteSets, TLC

VARIABLES now, profiles, proposals, nextId, req, wh, page

vars == <<now, profiles, proposals, nextId, req, wh, page>>

-----------------------------------------------------------------------------
(* Bounds of the model *)

MaxReqs == 2

MaxProposals == 4

MaxNow == 2

TicksPerMonth == 2

Null == "null"

Users == {"u1", "u2"}

Reqs == 1..MaxReqs

-----------------------------------------------------------------------------
(* Configuration: process.env, read by each handler at call time.  A       *)
(* request carries the set of names that are set when it is served.        *)

EnvNames ==
    {"SUPABASE", "OPENAI_API_KEY", "STRIPE_WEBHOOK_SECRET", "STRIPE_SECRET_KEY",
     "NEXT_PUBLIC_STRIPE_PRICE_ID"}

\* the configurations that differ in one name
EnvsOf(name) == { EnvNames, EnvNames \ {name} }

-----------------------------------------------------------------------------
(* Clock.  created_at and updated_at are instants of `now`; a calendar     *)
(* month is TicksPerMonth instants long.  startOfMonth is the first        *)
(* instant of the month of t (route.ts lines 62-64).                       *)

startOfEver(t) == 0

startOfMonth(t) == t - (t % TicksPerMonth)

-----------------------------------------------------------------------------
(* Identity Gate: the Authorization header is <<scheme, credential>>;      *)
(* a missing header reads as "" (route.ts line 10).                        *)

AuthHeaders ==
    { <<"", "">>, <<"Basic ", "tok_u1">>, <<"Bearer ", "">>,
      <<"Bearer ", "bad">>, <<"Bearer ", "tok_u1">>, <<"Bearer ", "tok_u2">> }

BearerToken(h) == IF h[1] = "Bearer " THEN h[2] ELSE Null

TokenMissing(token) == token = Null \/ token = ""

getUser(token) ==
    CASE token = "tok_u1" -> "u1"
      [] token = "tok_u2" -> "u2"
      [] OTHER -> Null

-----------------------------------------------------------------------------
(* Text *)

RECURSIVE TrimLeft(_)
TrimLeft(s) == IF s # <<>> /\ Head(s) = " " THEN TrimLeft(Tail(s)) ELSE s

RECURSIVE TrimRight(_)
TrimRight(s) ==
    IF s # <<>> /\ s[Len(s)] = " " THEN TrimRight(SubSeq(s, 1, Len(s) - 1)) ELSE s

Trim(s) == TrimRight(TrimLeft(s))

Falsy(s) == s = <<>>

ClientNames == { <<>>, <<" ">>, <<" ", "A", " ">> }

NotesTexts == { <<>>, <<" ">>, <<"n">> }

Bodies ==
    [json : {TRUE}, clientName : ClientNames, notes : NotesTexts]
      \cup [json : {FALSE}, clientName : {<<>>}, notes : {<<>>}]

-----------------------------------------------------------------------------
(* Responses *)

Response(status, error) ==
    [status |-> status, error |-> error, code |-> Null, limit |-> 0, used |-> 0,
     proposal |-> <<>>, saved |-> 0]

NoResponse == Response(0, Null)

IdleReq ==
    [pc |-> "idle", handler |-> Null, header |-> <<"", "">>, user |-> Null, plan |-> Null,
     clientName |-> <<>>, notes |-> <<>>, proposal |-> <<>>,
     calls |-> {}, failed |-> Null, resp |-> NoResponse]

Finish(q, resp) ==
    [q EXCEPT !.pc = "done", !.resp = resp, !.clientName = <<>>, !.notes = <<>>,
              !.proposal = <<>>]

-----------------------------------------------------------------------------
(* Relational Store: table "proposals" *)

OwnThisMonth(rows, uid, t) ==
    { p \in rows : p.user_id = uid /\ p.created_at >= startOfMonth(t) }

FREE_LIMIT == 3

QuotaReachedOffByOne(count) == count > FREE_LIMIT

QuotaReachedNever(count) == FALSE

QuotaReached(count) == count >= FREE_LIMIT

PlanOf(rows, uid) ==
    IF \E p \in rows : p.user_id = uid
    THEN (CHOOSE p \in rows : p.user_id = uid).plan
    ELSE "free"

QuotaAppliesToAll(plan) == TRUE

QuotaAppliesToNone(plan) == FALSE

QuotaApplies(plan) == plan # "pro"

-----------------------------------------------------------------------------
(* POST /api/generate, first definition (route.ts lines 7-170)             *)

\* lines 10-30: read the bearer token, check the store configuration
Start(r, header, env) ==
    /\ req[r].pc \in {"idle", "done"}
    /\ LET token == BearerToken(header)
           q == [IdleReq EXCEPT !.handler = "POST", !.header = header]
       IN req' = [req EXCEPT ![r] =
             IF TokenMissing(token) THEN Finish(q, Response(401, "Unauthorized"))
             ELSE IF "SUPABASE" \notin env
                  THEN Finish(q, Response(500, "Missing Supabase env vars on server"))
                  ELSE [q EXCEPT !.pc = "auth"]]
    /\ UNCHANGED <<now, profiles, proposals, nextId, wh, page>>

\* lines 33-40: supabase.auth.getUser()
Authenticate(r) ==
    /\ req[r].pc = "auth"
    /\ LET user == getUser(BearerToken(req[r].header))
           q == [req[r] EXCEPT !.calls = @ \cup {"auth"}]
       IN req' = [req EXCEPT ![r] =
             IF user = Null THEN Finish(q, Response(401, "Unauthorized"))
             ELSE [q EXCEPT !.pc = "profile", !.user = user]]
    /\ UNCHANGED <<now, profiles, proposals, nextId, wh, page>>

\* lines 43-56: load the plan; an absent Profile reads as free
LoadPlan(r, ok) ==
    /\ req[r].pc = "profile"
    /\ LET q == [req[r] EXCEPT !.calls = @ \cup {"profile"}]
           plan == PlanOf(profiles, q.user)
       IN req' = [req EXCEPT ![r] =
             IF ~ok THEN Finish([q EXCEPT !.failed = "profile"],
                                Response(500, "Could not load user plan"))
             ELSE [q EXCEPT !.plan = plan,
                            !.pc = IF QuotaApplies(plan) THEN "quota" ELSE "body"]]
    /\ UNCHANGED <<now, profiles, proposals, nextId, wh, page>>

CheckQuotaFailOpen(r, ok) ==
    /\ req[r].pc = "quota"
    /\ LET q == [req[r] EXCEPT !.calls = @ \cup {"count"}]
           count == IF ok THEN Cardinality(OwnThisMonth(proposals, q.user, now)) ELSE 0
       IN req' = [req EXCEPT ![r] =
             IF QuotaReached(count)
             THEN Finish(q, [Response(402, "Free plan limit reached")
                               EXCEPT !.code = "FREE_LIMIT_REACHED",
                                      !.limit = FREE_LIMIT, !.used = count])
             ELSE [q EXCEPT !.pc = "body", !.failed = IF ok THEN Null ELSE "count"]]
    /\ UNCHANGED <<now, profiles, proposals, nextId, wh, page>>

\* lines 59-90: count the caller's proposals of the current month
CheckQuota(r, ok) ==
    /\ req[r].pc = "quota"
    /\ LET q == [req[r] EXCEPT !.calls = @ \cup {"count"}]
           count == Cardinality(OwnThisMonth(proposals, q.user, now))
       IN req' = [req EXCEPT ![r] =
             IF ~ok THEN Finish([q EXCEPT !.failed = "count"],
                                Response(500, "Could not check usage"))
             ELSE IF QuotaReached(count)
                  THEN Finish(q, [Response(402, "Free plan limit reached")
                                    EXCEPT !.code = "FREE_LIMIT_REACHED",
                                           !.limit = FREE_LIMIT, !.used = count])
                  ELSE [q EXCEPT !.pc = "body"]]
    /\ UNCHANGED <<now, profiles, proposals, nextId, wh, page>>

\* lines 93-109: parse and validate the body, check the provider key
ParseBody(r, body, env) ==
    /\ req[r].pc = "body"
    /\ req[r].handler = "POST"
    /\ LET q == req[r]
       IN req' = [req EXCEPT ![r] =
             IF ~body.json THEN Finish(q, Response(500, "Unexpected token"))
             ELSE IF Falsy(body.clientName) \/ Falsy(body.notes)
                  THEN Finish(q, Response(400, "Missing clientName or notes"))
                  ELSE IF "OPENAI_API_KEY" \notin env
                       THEN Finish(q, Response(500, "OPENAI_API_KEY is missing on the server"))
                       ELSE [q EXCEPT !.pc = "generate", !.clientName = body.clientName,
                                      !.notes = body.notes]]
    /\ UNCHANGED <<now, profiles, proposals, nextId, wh, page>>

GenOutcomes == {"text", "nocontent", "throw", "throw_nomessage"}

Content(outcome) == IF outcome = "text" THEN <<"T">> ELSE <<>>

CatchMessage(outcome) ==
    IF outcome = "throw" THEN "provider message" ELSE "Unexpected error"

\* lines 130-139: the Generative Text Provider call
Generate(r, outcome) ==
    /\ req[r].pc = "generate"
    /\ req[r].handler = "POST"
    /\ LET q == [req[r] EXCEPT !.calls = @ \cup {"generate"}]
       IN req' = [req EXCEPT ![r] =
             IF outcome \in {"throw", "throw_nomessage"}
             THEN Finish([q EXCEPT !.failed = "generate"],
                         Response(500, CatchMessage(outcome)))
             ELSE [q EXCEPT !.pc = "save", !.proposal = Content(outcome)]]
    /\ UNCHANGED <<now, profiles, proposals, nextId, wh, page>>

NewProposalUntrimmed(id, q, t) ==
    [id |-> id, user_id |-> q.user, client_name |-> q.clientName,
     notes |-> q.notes, proposal |-> q.proposal, created_at |-> t]

\* lines 144-149: the row that is inserted
NewProposal(id, q, t) ==
    [id |-> id, user_id |-> q.user, client_name |-> Trim(q.clientName),
     notes |-> q.notes, proposal |-> q.proposal, created_at |-> t]

SaveSwallowsError(r, ok) ==
    /\ req[r].pc = "save"
    /\ LET q == [req[r] EXCEPT !.calls = @ \cup {"insert"}]
       IN IF ~ok
          THEN /\ req' = [req EXCEPT ![r] =
                     Finish([q EXCEPT !.failed = "insert"],
                            [Response(200, Null) EXCEPT !.proposal = q.proposal])]
               /\ UNCHANGED <<proposals, nextId>>
          ELSE /\ proposals' = proposals \cup {NewProposal(nextId, q, now)}
               /\ nextId' = nextId + 1
               /\ req' = [req EXCEPT ![r] =
                     Finish(q, [Response(200, Null) EXCEPT !.proposal = q.proposal,
                                                           !.saved = nextId])]
    /\ UNCHANGED <<now, profiles, wh, page>>

\* lines 142-161: insert the Proposal Record, answer with it
Save(r, ok) ==
    /\ req[r].pc = "save"
    /\ LET q == [req[r] EXCEPT !.calls = @ \cup {"insert"}]
       IN IF ~ok
          THEN /\ req' = [req EXCEPT ![r] = Finish([q EXCEPT !.failed = "insert"],
                                                   Response(500, "Save failed"))]
               /\ UNCHANGED <<proposals, nextId>>
          ELSE /\ proposals' = proposals \cup {NewProposal(nextId, q, now)}
               /\ nextId' = nextId + 1
               /\ req' = [req EXCEPT ![r] =
                     Finish(q, [Response(200, Null) EXCEPT !.proposal = q.proposal,
                                                           !.saved = nextId])]
    /\ UNCHANGED <<now, profiles, wh, page>>

-----------------------------------------------------------------------------
(* POST /api/generate, second definition (route.ts lines 179-244)          *)

\* lines 183-198: no credential is read; parse, validate, check the key
Start2(r, header, body, env) ==
    /\ req[r].pc \in {"idle", "done"}
    /\ LET q == [IdleReq EXCEPT !.handler = "POST2", !.header = header]
       IN req' = [req EXCEPT ![r] =
             IF ~body.json THEN Finish(q, Response(500, "Unexpected token"))
             ELSE IF Falsy(body.clientName) \/ Falsy(body.notes)
                  THEN Finish(q, Response(400, "Missing clientName or notes"))
                  ELSE IF "OPENAI_API_KEY" \notin env
                       THEN Finish(q, Response(500, "OPENAI_API_KEY is missing on the server"))
                       ELSE [q EXCEPT !.pc = "generate", !.clientName = body.clientName,
                                      !.notes = body.notes]]
    /\ UNCHANGED <<now, profiles, proposals, nextId, wh, page>>

\* lines 219-229: the Generative Text Provider call, answered without saving
Generate2(r, outcome) ==
    /\ req[r].pc = "generate"
    /\ req[r].handler = "POST2"
    /\ LET q == [req[r] EXCEPT !.calls = @ \cup {"generate"}]
       IN req' = [req EXCEPT ![r] =
             IF outcome \in {"throw", "throw_nomessage"}
             THEN Finish([q EXCEPT !.failed = "generate"],
                         Response(500, CatchMessage(outcome)))
             ELSE Finish(q, [Response(200, Null) EXCEPT !.proposal = Content(outcome)])]
    /\ UNCHANGED <<now, profiles, proposals, nextId, wh, page>>

-----------------------------------------------------------------------------
(* The clock *)

Tick ==
    /\ now' = now + 1
    /\ UNCHANGED <<profiles, proposals, nextId, req, wh, page>>

-----------------------------------------------------------------------------

ProfileRow(uid, email, plan, customer, subscription, periodEnd, t) ==
    [user_id |-> uid, email |-> email, plan |-> plan,
     stripe_customer_id |-> customer, stripe_subscription_id |-> subscription,
     current_period_end |-> periodEnd, updated_at |-> t]

-----------------------------------------------------------------------------
(* Payment-provider events.  A reference to a customer or subscription is  *)
(* a string id, an expanded object with an id, or null.  A unix time of 0  *)
(* stands for an absent one; an ISO timestamp is <<milliseconds>>.         *)

StrRef(id) == [kind |-> "string", id |-> id]

ObjRef(id) == [kind |-> "object", id |-> id]

NullRef == [kind |-> "null", id |-> Null]

RefIdStringOnly(ref) == IF ref.kind = "string" THEN ref.id ELSE Null

\* webhook/route.ts lines 98-104: typeof x === "string" ? x : x?.id ?? null
RefId(ref) == IF ref.kind = "string" THEN ref.id
              ELSE IF ref.kind = "object" THEN ref.id ELSE Null

\* webhook/route.ts lines 30-33
unixToIso(unixSeconds) == IF unixSeconds = 0 THEN <<>> ELSE <<unixSeconds * 1000>>

Event(type) ==
    [type |-> type, json |-> TRUE, mode |-> Null, user_id |-> Null,
     customer |-> NullRef, subscription |-> NullRef, details_email |-> Null,
     customer_email |-> Null, id |-> Null, status |-> Null, current_period_end |-> 0]

CheckoutEvent(mode, uid, customer, subscription, email) ==
    [Event("checkout.session.completed") EXCEPT
        !.mode = mode, !.user_id = uid, !.customer = customer,
        !.subscription = subscription, !.customer_email = email]

SubscriptionEvent(type, id, customer, status, cpe) ==
    [Event(type) EXCEPT !.id = id, !.customer = customer, !.status = status,
                        !.current_period_end = cpe]

NotJson == [Event("not json") EXCEPT !.json = FALSE]

\* the stripe-signature header: absent, or a signature made with a key over a body
NoSignature == [present |-> FALSE, key |-> Null, over |-> Event(Null)]

Signature(key, body) == [present |-> TRUE, key |-> key, over |-> body]

WebhookSecret == "whsec"

\* stripe.webhooks.constructEvent (webhook/route.ts line 75): the signature
\* must be made with the secret over exactly this body, and the body must parse
constructEventKeyOnly(rawBody, sig, secret) == sig.key = secret /\ rawBody.json

constructEvent(rawBody, sig, secret) ==
    sig.key = secret /\ sig.over = rawBody /\ rawBody.json

\* stripe.subscriptions.retrieve and toStripeSubscription (lines 18-28, 109-114):
\* what the provider returns for the referenced subscription
Retrieved(kind, cpe) == [kind |-> kind, current_period_end |-> cpe]

RetrieveThrows(got) == got.kind \in {"throw", "nonobject"}

-----------------------------------------------------------------------------
(* Relational Store: table "profiles", unique on user_id *)

\* lines 43-54: upsert on conflict user_id
upsertInsertOnly(rows, row) == rows \cup {row}

upsertUnlessCancelled(rows, row) ==
    IF \E p \in rows : /\ p.user_id = row.user_id /\ p.plan = "free"
                        /\ p.stripe_customer_id # Null
    THEN rows
    ELSE { p \in rows : p.user_id # row.user_id } \cup {row}

upsert(rows, row) == { p \in rows : p.user_id # row.user_id } \cup {row}

ByCustomerAny(rows, customerId) == rows

\* lines 139-143: .eq("stripe_customer_id", customerId).maybeSingle()
ByCustomer(rows, customerId) == { p \in rows : p.stripe_customer_id = customerId }

SubscriptionPlanTrialing(status) ==
    IF status \in {"active", "trialing"} THEN "pro" ELSE "free"

\* line 149
SubscriptionPlan(status) == IF status = "active" THEN "pro" ELSE "free"

WebhookResponse(status, error, note) == [status |-> status, error |-> error, note |-> note]

Outcome(rows, resp, calls, failed) ==
    [rows |-> rows, resp |-> resp, calls |-> calls, failed |-> failed]

CaughtAcknowledged(rows, calls, failed, message) ==
    Outcome(rows, WebhookResponse(200, message, Null), calls, failed)

\* lines 198-201: whatever is thrown is answered 400 with its message
Caught(rows, calls, failed, message) ==
    Outcome(rows, WebhookResponse(400, message, Null), calls, failed)

Ok(rows, calls, note) == Outcome(rows, WebhookResponse(200, Null, note), calls, Null)

\* lines 84-127
CheckoutCompleted(rows, session, got, upsertOk, t) ==
    IF session.mode # "subscription"
    THEN Ok(rows, {}, "Ignored non-subscription checkout")
    ELSE IF session.user_id = Null
    THEN Ok(rows, {}, "Missing session.metadata.user_id")
    ELSE LET customerId == RefId(session.customer)
             subscriptionId == RefId(session.subscription)
             email == IF session.details_email # Null THEN session.details_email
                      ELSE session.customer_email
             currentPeriodEndIso ==
                 IF subscriptionId # Null THEN unixToIso(got.current_period_end) ELSE <<>>
             calls == IF subscriptionId # Null THEN {"retrieve"} ELSE {}
         IN IF subscriptionId # Null /\ RetrieveThrows(got)
            THEN Caught(rows, calls, "retrieve", "No such subscription")
            ELSE IF ~upsertOk
            THEN Caught(rows, calls \cup {"upsert"}, "upsert", "Supabase upsert failed")
            ELSE Ok(upsert(rows, ProfileRow(session.user_id, email, "pro", customerId,
                                            subscriptionId, currentPeriodEndIso, t)),
                    calls \cup {"upsert"}, Null)

\* lines 154-161
UpdatedRow(profile, subEvent, customerId, t) ==
    ProfileRow(profile.user_id, profile.email, SubscriptionPlan(subEvent.status),
               customerId, subEvent.id, unixToIso(subEvent.current_period_end), t)

DeletedRowKeepsSubscription(profile, subEvent, customerId, t) ==
    ProfileRow(profile.user_id, profile.email, "free", customerId,
               profile.stripe_subscription_id, profile.current_period_end, t)

\* lines 184-191
DeletedRow(profile, subEvent, customerId, t) ==
    ProfileRow(profile.user_id, profile.email, "free", customerId, Null, <<>>, t)

\* lines 132-164 and 169-194
SubscriptionChanged(rows, subEvent, selectOk, upsertOk, t) ==
    LET customerId == RefId(subEvent.customer)
        found == ByCustomer(rows, customerId)
        deleted == subEvent.type = "customer.subscription.deleted"
    IN IF ~selectOk \/ Cardinality(found) > 1
       THEN Caught(rows, {"select"}, "select", "profile lookup failed")
       ELSE IF found = {}
       THEN Ok(rows, {"select"}, "No profile for customer")
       ELSE IF ~upsertOk
       THEN Caught(rows, {"select", "upsert"}, "upsert", "Supabase upsert failed")
       ELSE LET profile == CHOOSE p \in found : TRUE
                row == IF deleted THEN DeletedRow(profile, subEvent, customerId, t)
                       ELSE UpdatedRow(profile, subEvent, customerId, t)
            IN Ok(upsert(rows, row), {"select", "upsert"}, Null)

\* lines 84-197: the verified event, by type
Process(rows, event, got, selectOk, upsertOk, t) ==
    IF event.type = "checkout.session.completed"
    THEN CheckoutCompleted(rows, event, got, upsertOk, t)
    ELSE IF event.type \in {"customer.subscription.updated", "customer.subscription.deleted"}
    THEN SubscriptionChanged(rows, event, selectOk, upsertOk, t)
    ELSE Ok(rows, {}, Null)

\* lines 59-202: POST /api/stripe/webhook
Handle(rows, body, sig, env, got, selectOk, upsertOk, t) ==
    IF ~sig.present
    THEN Outcome(rows, WebhookResponse(400, "Missing stripe-signature", Null), {}, Null)
    ELSE IF "STRIPE_WEBHOOK_SECRET" \notin env
    THEN Outcome(rows, WebhookResponse(500, "Missing STRIPE_WEBHOOK_SECRET", Null), {}, Null)
    ELSE IF ~constructEvent(body, sig, WebhookSecret)
    THEN Outcome(rows, WebhookResponse(400, "Invalid signature", Null), {}, Null)
    ELSE Process(rows, body, got, selectOk, upsertOk, t)

\* an event type together with the user whose Profile it was written to
Applied(type, uid) == [type |-> type, user |-> uid]

NoApplied == Applied(Null, Null)

\* the user whose Profile a served event was written to: the user of the
\* session metadata (line 120), or the user of the row found by customer
\* reference (lines 155, 185)
AppliedTo(rows, event, out) ==
    IF out.failed # Null \/ "upsert" \notin out.calls THEN NoApplied
    ELSE IF event.type = "checkout.session.completed"
    THEN Applied(event.type, event.user_id)
    ELSE Applied(event.type,
                 (CHOOSE p \in ByCustomer(rows, RefId(event.customer)) : TRUE).user_id)

\* the exchange being served: the request as received, the number of
\* deliveries served so far, what the handler answered and called, the
\* Profile write of this delivery and the last Profile write before it
NoWebhook ==
    [n |-> 0, body |-> Event(Null), sig |-> NoSignature, retrieved |-> 0,
     resp |-> WebhookResponse(0, Null, Null), calls |-> {}, failed |-> Null,
     applied |-> NoApplied, before |-> NoApplied]

Webhook(body, sig, env, got, selectOk, upsertOk) ==
    LET out == Handle(profiles, body, sig, env, got, selectOk, upsertOk, now)
    IN /\ profiles' = out.rows
       /\ wh' = [n |-> wh.n + 1, body |-> body, sig |-> sig,
                 retrieved |-> IF "retrieve" \in out.calls /\ out.failed = Null
                               THEN got.current_period_end ELSE 0,
                 resp |-> out.resp, calls |-> out.calls, failed |-> out.failed,
                 applied |-> AppliedTo(profiles, body, out),
                 before |-> IF wh.applied # NoApplied THEN wh.applied ELSE wh.before]
       /\ UNCHANGED <<now, proposals, nextId, req, page>>

\* a first delivery
Deliver(body, sig, env, got, selectOk, upsertOk) ==
    /\ wh.n = 0
    /\ Webhook(body, sig, env, got, selectOk, upsertOk)

\* the provider delivers the same request once more
Redeliver(env, got, selectOk, upsertOk) ==
    /\ wh.n >= 1
    /\ Webhook(wh.body, wh.sig, env, got, selectOk, upsertOk)

\* the provider delivers another request right after the last one
Follow(body, sig, env, got, selectOk, upsertOk) ==
    /\ wh.n >= 1
    /\ Webhook(body, sig, env, got, selectOk, upsertOk)

\* the exchange is over; the handler keeps nothing of it
Acknowledge ==
    /\ wh.n >= 1
    /\ wh' = NoWebhook
    /\ UNCHANGED <<now, profiles, proposals, nextId, req, page>>

-----------------------------------------------------------------------------
(* The signed-in page (part_002): the user it was opened for, the history  *)
(* rows it shows, the last error it shows and the address it was sent to   *)
(* by a billing endpoint.                                                  *)

\* a checkout session at the payment provider: stripe.checkout.sessions
\* .create (part_000 lines 37-51, stripe/checkout/route.ts lines 18-24),
\* with the endpoint that created it
Session(via, mode, email, userId) ==
    [via |-> via, mode |-> mode, customer_email |-> email, user_id |-> userId]

NoSession == Session(Null, Null, Null, Null)

NoPage ==
    [userId |-> Null, rows |-> <<>>, error |-> Null, location |-> Null,
     session |-> NoSession]

\* lines 48-66: the session's user becomes the page's userId
SignIn(uid) ==
    /\ page.userId = Null
    /\ page' = [page EXCEPT !.userId = uid]
    /\ UNCHANGED <<now, profiles, proposals, nextId, req, wh>>

HistoryLimit == 50

OwnedByAnyone(rows, uid) == rows

\* .eq("user_id", userId)
OwnedBy(rows, uid) == { p \in rows : p.user_id = uid }

Newest(rows) == { p \in rows : \A o \in rows : o.created_at <= p.created_at }

\* .order("created_at", { ascending: false }): rows of one instant come in
\* any order
RECURSIVE Ordered(_)
Ordered(rows) ==
    IF rows = {} THEN { <<>> }
    ELSE UNION { { <<p>> \o t : t \in Ordered(rows \ {p}) } : p \in Newest(rows) }

\* .limit(n)
Limit(s, n) == IF Len(s) <= n THEN s ELSE SubSeq(s, 1, n)

\* lines 165-170: what the history query can return
Listings(rows, uid) == { Limit(s, HistoryLimit) : s \in Ordered(OwnedBy(rows, uid)) }

\* lines 159-181
loadHistory(ok) ==
    /\ page.userId # Null
    /\ IF ~ok
       THEN page' = [page EXCEPT !.error = "history failed"]
       ELSE \E l \in Listings(proposals, page.userId) :
               page' = [page EXCEPT !.error = Null, !.rows = l]
    /\ UNCHANGED <<now, profiles, proposals, nextId, req, wh>>

WithoutId(s, id) == SelectSeq(s, LAMBDA p : p.id # id)

\* lines 183-210: .delete().eq("id", id).eq("user_id", userId)
deleteProposal(id, ok) ==
    /\ IF page.userId = Null
       THEN /\ page' = [page EXCEPT !.error = "Missing user. Please refresh."]
            /\ UNCHANGED proposals
       ELSE IF ~ok
       THEN /\ page' = [page EXCEPT !.error = "delete failed"]
            /\ UNCHANGED proposals
       ELSE /\ proposals' = proposals \ { p \in OwnedBy(proposals, page.userId) : p.id = id }
            /\ page' = [page EXCEPT !.error = Null, !.rows = WithoutId(@, id)]
    /\ UNCHANGED <<now, profiles, nextId, req, wh>>

-----------------------------------------------------------------------------
(* The billing endpoints: checkout-session create (part_000, and the older *)
(* src/app/stripe/checkout/route.ts) and billing portal (part_001).  A     *)
(* body field that is absent is Null.                                      *)

BillingResponse(status, error, url) ==
    [status |-> status, error |-> error, url |-> url, session |-> NoSession]

\* part_000 lines 6-61
CheckoutCreate(email, userId, env, stripeOk) ==
    IF "STRIPE_SECRET_KEY" \notin env
    THEN BillingResponse(500, "Missing STRIPE_SECRET_KEY", Null)
    ELSE IF "NEXT_PUBLIC_STRIPE_PRICE_ID" \notin env
    THEN BillingResponse(500, "Missing NEXT_PUBLIC_STRIPE_PRICE_ID", Null)
    ELSE IF email = Null THEN BillingResponse(400, "Missing email", Null)
    ELSE IF userId = Null THEN BillingResponse(400, "Missing userId", Null)
    ELSE IF ~stripeOk THEN BillingResponse(500, "Stripe checkout failed", Null)
    ELSE [BillingResponse(200, Null, "checkout") EXCEPT
             !.session = Session("part_000", "subscription", email, userId)]

\* src/app/stripe/checkout/route.ts lines 4-31
CheckoutCreateLegacy(email, env, stripeOk) ==
    IF "STRIPE_SECRET_KEY" \notin env
    THEN BillingResponse(500, "Missing STRIPE_SECRET_KEY", Null)
    ELSE IF "NEXT_PUBLIC_STRIPE_PRICE_ID" \notin env
    THEN BillingResponse(500, "Missing NEXT_PUBLIC_STRIPE_PRICE_ID", Null)
    ELSE IF ~stripeOk THEN BillingResponse(500, "Stripe checkout failed", Null)
    ELSE [BillingResponse(200, Null, "checkout") EXCEPT
             !.session = Session("stripe/checkout/route.ts", "subscription", email, Null)]

\* part_001 lines 22-62
BillingPortal(rows, userId, selectOk, stripeOk) ==
    IF userId = Null THEN BillingResponse(400, "Missing userId", Null)
    ELSE IF ~selectOk THEN BillingResponse(500, "profile lookup failed", Null)
    ELSE LET found == { p \in rows : p.user_id = userId }
             customerId == IF found = {} THEN Null
                           ELSE (CHOOSE p \in found : TRUE).stripe_customer_id
         IN IF customerId = Null
            THEN BillingResponse(400, "No Stripe customer found for this user yet.", Null)
            ELSE IF ~stripeOk THEN BillingResponse(500, "Portal error", Null)
            ELSE BillingResponse(200, Null, "portal")

\* part_002 lines 355-387: the page asks for a checkout session and follows
\* the address it is given
upgradeToPro(email, env, stripeOk) ==
    /\ LET res == CheckoutCreate(email, page.userId, env, stripeOk)
       IN page' = IF email = Null
                  THEN [page EXCEPT !.error = "No email found"]
                  ELSE [page EXCEPT !.error = res.error, !.location = res.url,
                                    !.session = res.session]
    /\ UNCHANGED <<now, profiles, proposals, nextId, req, wh>>

\* a request to the older checkout endpoint, which takes an email only
LegacyCheckout(email, env, stripeOk) ==
    /\ LET res == CheckoutCreateLegacy(email, env, stripeOk)
       IN page' = [page EXCEPT !.error = res.error, !.location = res.url,
                               !.session = res.session]
    /\ UNCHANGED <<now, profiles, proposals, nextId, req, wh>>

\* the checkout-completed event of a session: its mode, its metadata and
\* its customer_email, with the customer and subscription the payment made
\* (webhook route.ts lines 84-99 read these fields)
CompletedEvent(session, customer, subscription) ==
    CheckoutEvent(session.mode, session.user_id, StrRef(customer),
                  StrRef(subscription), session.customer_email)

\* the customer pays on the checkout page the browser was sent to: the
\* provider signs and delivers the checkout-completed event of the session
CompleteCheckout(customer, subscription, got, selectOk, upsertOk) ==
    /\ page.session # NoSession
    /\ LET ev == CompletedEvent(page.session, customer, subscription)
       IN Deliver(ev, Signature(WebhookSecret, ev), EnvNames, got, selectOk, upsertOk)

\* part_002 lines 389-418
openBillingPortal(selectOk, stripeOk) ==
    /\ LET res == BillingPortal(profiles, page.userId, selectOk, stripeOk)
       IN page' = IF page.userId = Null
                  THEN [page EXCEPT !.error = "Missing user. Please refresh."]
                  ELSE [page EXCEPT !.error = res.error, !.location = res.url]
    /\ UNCHANGED <<now, profiles, proposals, nextId, req, wh>>

-----------------------------------------------------------------------------
(* First-touch initialisation, part_002 lines 117-157 *)

ensureProfileOverwrites(uid, email, selectOk, insertOk) ==
    /\ profiles' =
          IF selectOk /\ insertOk
          THEN upsert(profiles, ProfileRow(uid, email, "free", Null, Null, <<>>, now))
          ELSE profiles
    /\ UNCHANGED <<now, proposals, nextId, req, wh, page>>

ensureProfileAndLoadPlan(uid, email, selectOk, insertOk) ==
    /\ profiles' =
          IF selectOk /\ insertOk /\ ~\E p \in profiles : p.user_id = uid
          THEN profiles \cup {ProfileRow(uid, email, "free", Null, Null, <<>>, now)}
          ELSE profiles
    /\ UNCHANGED <<now, proposals, nextId, req, wh, page>>

-----------------------------------------------------------------------------
(* The generation endpoint serving requests one after another: a request  *)
(* starts when no other is in flight.  The Profiles are those the webhook  *)
(* and the first-touch initialisation leave behind.                        *)

Quiet == \A r \in Reqs : req[r].pc \in {"idle", "done"}

FirstReq == CHOOSE r \in Reqs : \A o \in Reqs : r <= o

SeedProfiles ==
    { { ProfileRow("u1", Null, "pro", "c1", "s1", <<>>, 0) },
      { ProfileRow("u1", Null, "free", Null, Null, <<>>, 0),
        ProfileRow("u2", Null, "pro", "c1", "s1", <<>>, 0) } }

\* the second definition reads no header: one absent and one valid credential
IgnoredHeaders == { <<"", "">>, <<"Bearer ", "tok_u1">> }

QuotaBodies ==
    { [json |-> TRUE, clientName |-> <<" ", "A", " ">>, notes |-> <<"n">>],
      [json |-> TRUE, clientName |-> <<>>, notes |-> <<"n">>],
      [json |-> FALSE, clientName |-> <<>>, notes |-> <<>>] }

QuotaOutcomes == {"text", "throw", "throw_nomessage"}

InitGen ==
    /\ now = 0
    /\ profiles \in SeedProfiles
    /\ proposals = {}
    /\ nextId = 1
    /\ req = [r \in Reqs |-> IdleReq]
    /\ wh = NoWebhook
    /\ page = NoPage

NextGen ==
    \/ \E h \in AuthHeaders, e \in EnvsOf("SUPABASE") : Quiet /\ Start(FirstReq, h, e)
    \/ \E r \in Reqs : Authenticate(r)
    \/ \E r \in Reqs, ok \in BOOLEAN : LoadPlan(r, ok)
    \/ \E r \in Reqs, ok \in BOOLEAN : CheckQuota(r, ok)
    \/ \E r \in Reqs, b \in QuotaBodies, e \in EnvsOf("OPENAI_API_KEY") : ParseBody(r, b, e)
    \/ \E r \in Reqs, o \in QuotaOutcomes : Generate(r, o)
    \/ \E r \in Reqs, ok \in BOOLEAN : nextId <= MaxProposals /\ Save(r, ok)
    \/ \E h \in IgnoredHeaders, b \in QuotaBodies, e \in EnvsOf("OPENAI_API_KEY") :
          Quiet /\ Start2(FirstReq, h, b, e)
    \/ \E r \in Reqs, o \in QuotaOutcomes : Generate2(r, o)
    \/ now < MaxNow /\ Tick

SpecGen == InitGen /\ [][NextGen]_vars

-----------------------------------------------------------------------------
(* The generation endpoint (lines 7-170) serving authenticated requests    *)
(* one after another, with every body, every provider outcome and every    *)
(* store outcome.                                                          *)

MaxSaved == 2

ValidHeaders == { <<"Bearer ", "tok_u1">>, <<"Bearer ", "tok_u2">> }

InitInput ==
    /\ now = 0
    /\ profiles \in SeedProfiles
    /\ proposals = {}
    /\ nextId = 1
    /\ req = [r \in Reqs |-> IdleReq]
    /\ wh = NoWebhook
    /\ page = NoPage

NextInput ==
    \/ \E h \in ValidHeaders : Quiet /\ Start(FirstReq, h, EnvNames)
    \/ \E r \in Reqs : Authenticate(r)
    \/ \E r \in Reqs, ok \in BOOLEAN : LoadPlan(r, ok)
    \/ \E r \in Reqs, ok \in BOOLEAN : CheckQuota(r, ok)
    \/ \E r \in Reqs, b \in Bodies, e \in EnvsOf("OPENAI_API_KEY") : ParseBody(r, b, e)
    \/ \E r \in Reqs, o \in GenOutcomes : Generate(r, o)
    \/ \E r \in Reqs, ok \in BOOLEAN : nextId <= MaxSaved /\ Save(r, ok)

SpecInput == InitInput /\ [][NextInput]_vars

-----------------------------------------------------------------------------
(* The generation endpoint (lines 7-170) serving up to MaxReqs requests of *)
(* one free-plan user at the same time: the steps of the requests          *)
(* interleave in every order, and a slot takes a new request when its      *)
(* request is over.                                                        *)

MaxConcSaved == 6

FreeUserToken == <<"Bearer ", "tok_u1">>

FreeProfiles == { ProfileRow("u1", Null, "free", Null, Null, <<>>, 0) }

ProposalBody == [json |-> TRUE, clientName |-> <<" ", "A", " ">>, notes |-> <<"n">>]

InitConc ==
    /\ now = 0
    /\ profiles = FreeProfiles
    /\ proposals = {}
    /\ nextId = 1
    /\ req = [r \in Reqs |-> IdleReq]
    /\ wh = NoWebhook
    /\ page = NoPage

NextConc ==
    \/ \E r \in Reqs : Start(r, FreeUserToken, EnvNames)
    \/ \E r \in Reqs : Authenticate(r)
    \/ \E r \in Reqs : LoadPlan(r, TRUE)
    \/ \E r \in Reqs, ok \in BOOLEAN : CheckQuota(r, ok)
    \/ \E r \in Reqs : ParseBody(r, ProposalBody, EnvNames)
    \/ \E r \in Reqs : Generate(r, "text")
    \/ \E r \in Reqs, ok \in BOOLEAN : nextId <= MaxConcSaved /\ Save(r, ok)

SpecConc == InitConc /\ [][NextConc]_vars

-----------------------------------------------------------------------------
(* The page of one user next to the generation endpoint (lines 7-170)      *)
(* serving the requests of both users one after another: the page lists    *)
(* its history and deletes by id, with any id.                             *)

MaxPageSaved == 4

InitPage ==
    /\ now = 0
    /\ profiles = FreeProfiles
    /\ proposals = {}
    /\ nextId = 1
    /\ req = [r \in Reqs |-> IdleReq]
    /\ wh = NoWebhook
    /\ page = NoPage

NextPage ==
    \/ \E h \in ValidHeaders : Quiet /\ Start(FirstReq, h, EnvNames)
    \/ \E r \in Reqs : Authenticate(r)
    \/ \E r \in Reqs : LoadPlan(r, TRUE)
    \/ \E r \in Reqs : CheckQuota(r, TRUE)
    \/ \E r \in Reqs : ParseBody(r, ProposalBody, EnvNames)
    \/ \E r \in Reqs : Generate(r, "text")
    \/ \E r \in Reqs : nextId <= MaxPageSaved /\ Save(r, TRUE)
    \/ \E u \in Users : SignIn(u)
    \/ \E ok \in BOOLEAN : loadHistory(ok)
    \/ \E id \in 1..MaxPageSaved, ok \in BOOLEAN : deleteProposal(id, ok)

SpecPage == InitPage /\ [][NextPage]_vars

-----------------------------------------------------------------------------
(* A free-plan user over the months: the generation endpoint (lines 7-170) *)
(* serves the user's requests one after another, a page deletes records by *)
(* id, and the clock passes from one calendar month to the next.           *)

MaxMonthSaved == 5

InitMonth ==
    /\ now = 0
    /\ profiles = FreeProfiles
    /\ proposals = {}
    /\ nextId = 1
    /\ req = [r \in Reqs |-> IdleReq]
    /\ wh = NoWebhook
    /\ page = NoPage

NextMonth ==
    \/ Quiet /\ Start(FirstReq, FreeUserToken, EnvNames)
    \/ \E r \in Reqs : Authenticate(r)
    \/ \E r \in Reqs : LoadPlan(r, TRUE)
    \/ \E r \in Reqs, ok \in BOOLEAN : CheckQuota(r, ok)
    \/ \E r \in Reqs : ParseBody(r, ProposalBody, EnvNames)
    \/ \E r \in Reqs : Generate(r, "text")
    \/ \E r \in Reqs : nextId <= MaxMonthSaved /\ Save(r, TRUE)
    \/ \E u \in Users : SignIn(u)
    \/ \E id \in 1..MaxMonthSaved, ok \in BOOLEAN : deleteProposal(id, ok)
    \/ now < MaxNow /\ Tick

SpecMonth == InitMonth /\ [][NextMonth]_vars

-----------------------------------------------------------------------------
(* A pro user who generates one proposal after another and looks at the    *)
(* history in between.  The store's clock has moved on between two         *)
(* inserts, so no two records of this user share their created_at.         *)

MaxHistorySaved == 51

ProProfiles == { ProfileRow("u1", Null, "pro", "c1", "s1", <<>>, 0) }

SavedNow == \E p \in proposals : p.created_at = now

InitHistory ==
    /\ now = 0
    /\ profiles = ProProfiles
    /\ proposals = {}
    /\ nextId = 1
    /\ req = [r \in Reqs |-> IdleReq]
    /\ wh = NoWebhook
    /\ page = NoPage

NextHistory ==
    \/ Quiet /\ ~SavedNow /\ Start(FirstReq, FreeUserToken, EnvNames)
    \/ \E r \in Reqs : Authenticate(r)
    \/ \E r \in Reqs : LoadPlan(r, TRUE)
    \/ \E r \in Reqs : ParseBody(r, ProposalBody, EnvNames)
    \/ \E r \in Reqs : Generate(r, "text")
    \/ \E r \in Reqs : nextId <= MaxHistorySaved /\ Save(r, TRUE)
    \/ SavedNow /\ Tick
    \/ page.rows = <<>> /\ SignIn("u1")
    \/ Quiet /\ loadHistory(TRUE)

SpecHistory == InitHistory /\ [][NextHistory]_vars

-----------------------------------------------------------------------------
(* The webhook endpoint and the first-touch initialisation over the        *)
(* "profiles" table: deliveries are served one at a time, in any order,    *)
(* any number of times.                                                    *)

MaxHookNow == 1

MaxDeliveries == 2

Customers == {"c1", "c2"}

Email == "a@x"

CheckoutEvents ==
    { CheckoutEvent("subscription", u, StrRef(c), StrRef("s1"), Email) :
        u \in Users, c \in Customers }
      \cup { CheckoutEvent("subscription", "u1", ObjRef("c2"), ObjRef("s2"), Email),
             CheckoutEvent("subscription", "u1", NullRef, NullRef, Email),
             CheckoutEvent("subscription", Null, StrRef("c1"), StrRef("s1"), Email),
             CheckoutEvent("payment", "u1", StrRef("c1"), NullRef, Email) }

Retrievals ==
    { Retrieved("throw", 0), Retrieved("nonobject", 0), Retrieved("direct", 0),
      Retrieved("direct", 100), Retrieved("wrapped", 100) }

UpdatedEvents ==
    { SubscriptionEvent("customer.subscription.updated", "s2", StrRef(c), st, 100) :
        c \in Customers, st \in {"active", "past_due"} }
      \cup { SubscriptionEvent("customer.subscription.updated", "s1", StrRef("c1"),
                               "active", 0),
             SubscriptionEvent("customer.subscription.updated", "s1", ObjRef("c1"),
                               "trialing", 100) }

DeletedEvents ==
    { SubscriptionEvent("customer.subscription.deleted", "s1", c, "canceled", 100) :
        c \in {StrRef("c1"), StrRef("c2"), ObjRef("c1")} }

OtherEvents == { Event("invoice.paid") }

Configured == EnvNames

\* requests that the payment provider did not sign as they arrive
ForgedBody == CheckoutEvent("subscription", "u2", StrRef("c2"), StrRef("s2"), Email)

OriginalBody == CheckoutEvent("payment", "u1", StrRef("c1"), NullRef, Email)

ForgedSignatures ==
    { NoSignature, Signature("forged", ForgedBody), Signature(WebhookSecret, OriginalBody) }

NoRetrieval == Retrieved(Null, 0)

InitHook ==
    /\ now = 0
    /\ profiles = {}
    /\ proposals = {}
    /\ nextId = 1
    /\ req = [r \in Reqs |-> IdleReq]
    /\ wh = NoWebhook
    /\ page = NoPage

NextHook ==
    \/ \E ev \in CheckoutEvents, got \in Retrievals, up \in BOOLEAN :
          Deliver(ev, Signature(WebhookSecret, ev), Configured, got, TRUE, up)
    \/ \E ev \in UpdatedEvents \cup DeletedEvents, sel \in BOOLEAN, up \in BOOLEAN :
          Deliver(ev, Signature(WebhookSecret, ev), Configured, NoRetrieval, sel, up)
    \/ \E ev \in OtherEvents \cup {NotJson} :
          Deliver(ev, Signature(WebhookSecret, ev), Configured, NoRetrieval, TRUE, TRUE)
    \/ \E sig \in ForgedSignatures, e \in EnvsOf("STRIPE_WEBHOOK_SECRET") :
          Deliver(ForgedBody, sig, e, NoRetrieval, TRUE, TRUE)
    \/ \E got \in Retrievals, up \in BOOLEAN :
          /\ wh.n < MaxDeliveries /\ wh.body.type = "checkout.session.completed"
          /\ Redeliver(Configured, got, TRUE, up)
    \/ \E sel \in BOOLEAN, up \in BOOLEAN :
          /\ wh.n < MaxDeliveries /\ wh.body.type # "checkout.session.completed"
          /\ Redeliver(Configured, NoRetrieval, sel, up)
    \/ Acknowledge
    \/ \E u \in Users, sel \in BOOLEAN, ins \in BOOLEAN :
          wh.n = 0 /\ ensureProfileAndLoadPlan(u, Null, sel, ins)
    \/ now < MaxHookNow /\ Tick

SpecHook == InitHook /\ [][NextHook]_vars

-----------------------------------------------------------------------------
(* Every endpoint over the "profiles" table, one request at a time: the    *)
(* webhook, the generation endpoint (lines 7-170), the two checkout        *)
(* endpoints, the billing portal and the first-touch initialisation.       *)

MaxPlanSaved == 1

PlanEvents ==
    { CheckoutEvent("subscription", "u1", StrRef("c1"), StrRef("s1"), Email),
      SubscriptionEvent("customer.subscription.updated", "s1", StrRef("c1"), "active", 100),
      SubscriptionEvent("customer.subscription.updated", "s1", StrRef("c1"), "past_due", 100),
      SubscriptionEvent("customer.subscription.deleted", "s1", StrRef("c1"), "canceled", 100) }

PlanRetrievals == { Retrieved("throw", 0), Retrieved("direct", 100) }

Emails == { Null, Email }

\* no request is being served
Idle == Quiet /\ wh.n = 0

InitPlan ==
    /\ now = 0
    /\ profiles = {}
    /\ proposals = {}
    /\ nextId = 1
    /\ req = [r \in Reqs |-> IdleReq]
    /\ wh = NoWebhook
    /\ page = NoPage

NextPlan ==
    \/ \E ev \in PlanEvents, got \in PlanRetrievals, sel \in BOOLEAN, up \in BOOLEAN :
          Quiet /\ Deliver(ev, Signature(WebhookSecret, ev), Configured, got, sel, up)
    \/ \E sig \in ForgedSignatures :
          Quiet /\ Deliver(ForgedBody, sig, Configured, NoRetrieval, TRUE, TRUE)
    \/ Acknowledge
    \/ \E u \in Users, sel \in BOOLEAN, ins \in BOOLEAN :
          Idle /\ ensureProfileAndLoadPlan(u, Null, sel, ins)
    \/ \E h \in ValidHeaders : Idle /\ Start(FirstReq, h, EnvNames)
    \/ \E r \in Reqs : Authenticate(r)
    \/ \E r \in Reqs, ok \in BOOLEAN : LoadPlan(r, ok)
    \/ \E r \in Reqs : CheckQuota(r, TRUE)
    \/ \E r \in Reqs : ParseBody(r, ProposalBody, EnvNames)
    \/ \E r \in Reqs : Generate(r, "text")
    \/ \E r \in Reqs : nextId <= MaxPlanSaved /\ Save(r, TRUE)
    \/ \E u \in Users : Idle /\ SignIn(u)
    \/ \E e \in Emails, env \in EnvsOf("STRIPE_SECRET_KEY"), ok \in BOOLEAN :
          Idle /\ upgradeToPro(e, env, ok)
    \/ \E e \in Emails, env \in EnvsOf("NEXT_PUBLIC_STRIPE_PRICE_ID"), ok \in BOOLEAN :
          Idle /\ LegacyCheckout(e, env, ok)
    \/ \E sel \in BOOLEAN, ok \in BOOLEAN : Idle /\ openBillingPortal(sel, ok)

SpecPlan == InitPlan /\ [][NextPlan]_vars

-----------------------------------------------------------------------------
(* The webhook endpoint serving verified events one right after another,   *)
(* in any order: the exchange remembers the Profile write that came last   *)
(* before the delivery being served.                                       *)

MaxOrder == 3

OrderEvents ==
    PlanEvents \cup OtherEvents
      \cup { CheckoutEvent("subscription", "u2", StrRef("c2"), StrRef("s2"), Email),
             SubscriptionEvent("customer.subscription.deleted", "s2", StrRef("c2"),
                               "canceled", 0),
             CheckoutEvent("payment", "u1", StrRef("c1"), NullRef, Email) }

InitOrder ==
    /\ now = 0
    /\ profiles = {}
    /\ proposals = {}
    /\ nextId = 1
    /\ req = [r \in Reqs |-> IdleReq]
    /\ wh = NoWebhook
    /\ page = NoPage

NextOrder ==
    \/ \E ev \in OrderEvents, got \in PlanRetrievals, sel \in BOOLEAN, up \in BOOLEAN :
          Deliver(ev, Signature(WebhookSecret, ev), Configured, got, sel, up)
    \/ \E ev \in OrderEvents, got \in PlanRetrievals, sel \in BOOLEAN, up \in BOOLEAN :
          /\ wh.n < MaxOrder
          /\ Follow(ev, Signature(WebhookSecret, ev), Configured, got, sel, up)
    \/ Acknowledge

SpecOrder == InitOrder /\ [][NextOrder]_vars

-----------------------------------------------------------------------------
(* Checkout: the signed-in page asks either checkout-session-create        *)
(* endpoint for a session, the customer pays, and the provider delivers    *)
(* the checkout-completed event of that session.                           *)

InitCheckout ==
    /\ now = 0
    /\ profiles \in { {}, FreeProfiles }
    /\ proposals = {}
    /\ nextId = 1
    /\ req = [r \in Reqs |-> IdleReq]
    /\ wh = NoWebhook
    /\ page = NoPage

NextCheckout ==
    \/ \E u \in Users : SignIn(u)
    \/ \E e \in Emails, env \in EnvsOf("STRIPE_SECRET_KEY") \cup
                               EnvsOf("NEXT_PUBLIC_STRIPE_PRICE_ID"),
          ok \in BOOLEAN :
          upgradeToPro(e, env, ok)
    \/ \E e \in Emails, env \in EnvsOf("STRIPE_SECRET_KEY") \cup
                               EnvsOf("NEXT_PUBLIC_STRIPE_PRICE_ID"),
          ok \in BOOLEAN :
          LegacyCheckout(e, env, ok)
    \/ \E c \in Customers, got \in PlanRetrievals, sel \in BOOLEAN, up \in BOOLEAN :
          CompleteCheckout(c, "s2", got, sel, up)
    \/ /\ wh.n < MaxDeliveries
       /\ Redeliver(Configured, Retrieved("direct", 100), TRUE, TRUE)
    \/ Acknowledge

SpecCheckout == InitCheckout /\ [][NextCheckout]_vars

-----------------------------------------------------------------------------
(* Properties of the generation endpoint *)

IsPro(uid) == \E p \in profiles : p.user_id = uid /\ p.plan = "pro"

Used(uid) == Cardinality(OwnThisMonth(proposals, uid, now))

First(r) == req[r].handler = "POST"

\* C1: for a free-plan user (Profile not pro, or no Profile) whose requests
\* run one after another, the plan load is always followed by the quota
\* count; with n own Proposal Records of the current month the count step
\* lets the request pass when n < 3 and rejects it when n = 3, with 402,
\* code FREE_LIMIT_REACHED, limit 3 and used 3 (n never exceeds 3); a
\* request is rejected for quota only when that count is >= 3, and the
\* response carries the count as used.
C1_FreeQuota ==
    [][\A r \in Reqs :
         /\ (req[r].pc = "profile" /\ req'[r].pc # "profile" /\ ~IsPro(req[r].user))
               => (req'[r].pc = "quota" \/ req'[r].resp.status = 500)
         /\ (req[r].pc = "quota" /\ req'[r].pc # "quota" /\ ~IsPro(req[r].user))
               => /\ Used(req[r].user) <= 3
                  /\ Used(req[r].user) < 3
                        => (req'[r].pc = "body" \/ req'[r].resp.status = 500)
                  /\ Used(req[r].user) >= 3
                        => (req'[r].pc = "done" /\ req'[r].resp.status \in {402, 500})
                  /\ req'[r].resp.status = 402
                        => /\ req'[r].resp.code = "FREE_LIMIT_REACHED"
                           /\ req'[r].resp.limit = 3
                           /\ req'[r].resp.used = 3
                           /\ req'[r].resp.used = Used(req[r].user)
         /\ (req'[r].resp.status = 402 /\ req[r].resp.status # 402)
               => (req[r].pc = "quota" /\ Used(req[r].user) >= 3)
      ]_vars

\* the 4th attempt of a free-plan user in one month: three own records of
\* the current month, each saved by an earlier request, and a 402 with used = 3
C1_Witness ==
    \E r \in Reqs :
        /\ req[r].pc = "done" /\ req[r].resp.status = 402 /\ req[r].resp.used = 3
        /\ ~IsPro(req[r].user)
        /\ Used(req[r].user) = 3

\* C2: in the handler of lines 7-170 the Generative Text Provider is called
\* only after the quota check of the request has passed (the count was
\* taken and was below the limit, or the plan read was pro), and a request
\* that ends in QuotaExceeded (402) or QuotaCheckFailed has neither called
\* the Generative Text Provider nor inserted a Proposal Record.
C2_QuotaBeforeGeneration ==
    \A r \in Reqs :
        First(r) =>
          /\ ("generate" \in req[r].calls \/ "insert" \in req[r].calls)
                => /\ "profile" \in req[r].calls
                   /\ (req[r].plan = "pro" \/ "count" \in req[r].calls)
                   /\ req[r].resp.status # 402
                   /\ req[r].resp.error # "Could not check usage"
          /\ (req[r].resp.status = 402 \/ req[r].resp.error = "Could not check usage")
                => /\ "generate" \notin req[r].calls
                   /\ "insert" \notin req[r].calls
                   /\ req[r].resp.saved = 0

\* a request rejected for quota after three requests that each reached the
\* provider once their count was taken
C2_Witness ==
    \E r \in Reqs :
        /\ First(r) /\ req[r].pc = "done" /\ req[r].resp.status = 402
        /\ req[r].calls = {"auth", "profile", "count"}
        /\ Cardinality({ p \in proposals : p.user_id = req[r].user }) = 3

\* the credentials the Identity Gate must reject: no header, another
\* scheme, an empty token, a token the Identity Provider does not resolve
InvalidHeaders ==
    AuthHeaders \ { <<"Bearer ", "tok_u1">>, <<"Bearer ", "tok_u2">> }

Unauthenticated(q) ==
    /\ q.pc \in {"auth", "done"}
    /\ q.calls \subseteq {"auth"}
    /\ q.pc = "done"
          => (q.resp.status = 401
                \/ q.resp.error = "Missing Supabase env vars on server")

\* C3: a generation request whose bearer credential is missing, malformed
\* or not resolvable to a user ends with 401 (or with the 500 of a server
\* without store configuration), and no Profile load, quota count,
\* Generative Text Provider call or Proposal Record insert happens for it.
C3_Unauthenticated ==
    \A r \in Reqs :
        (req[r].pc # "idle" /\ req[r].header \in InvalidHeaders)
          => Unauthenticated(req[r])

\* the part of C3 about the provider: no request with such a credential
\* has called the Generative Text Provider or been answered 200
C3_NoProviderCall ==
    \A r \in Reqs :
        req[r].header \in InvalidHeaders
          => ("generate" \notin req[r].calls /\ req[r].resp.status # 200)

\* C3 of the requests served by the definition of lines 7-170 alone
C3_FirstDefinition ==
    \A r \in Reqs :
        (First(r) /\ req[r].pc # "idle" /\ req[r].header \in InvalidHeaders)
          => Unauthenticated(req[r])

\* C4: for a user whose Profile plan is pro the handler never takes the
\* quota count and never answers 402, whatever the number of Proposal
\* Records the user owns.
C4_ProUnlimited ==
    \A r \in Reqs :
        (First(r) /\ req[r].user # Null /\ IsPro(req[r].user))
          => /\ "count" \notin req[r].calls
             /\ req[r].resp.status # 402
             /\ req[r].pc \notin {"quota"}

\* a pro user who already owns more records of the current month than the
\* free limit and whose next request is saved
C4_Witness ==
    \E r \in Reqs :
        /\ First(r) /\ req[r].pc = "done" /\ req[r].resp.status = 200
        /\ IsPro(req[r].user)
        /\ Used(req[r].user) > 3

-----------------------------------------------------------------------------
(* Properties of the webhook endpoint *)

\* the request was signed by the payment provider with the shared secret
\* over the body as received, and the body is an event
Genuine(w) ==
    w.sig.present /\ w.sig.key = "whsec" /\ w.sig.over = w.body /\ w.body.json

\* this step serves a delivery
Served == wh'.n = wh.n + 1

\* ... and the handler completed it without a failing store or provider call
Completed(w) == Genuine(w) /\ w.failed = Null

RowsOf(rows, uid) == { p \in rows : p.user_id = uid }

Others(rows, uid) == { p \in rows : p.user_id # uid }

Billing(p) ==
    [user_id |-> p.user_id, email |-> p.email, plan |-> p.plan,
     stripe_customer_id |-> p.stripe_customer_id,
     stripe_subscription_id |-> p.stripe_subscription_id]

IsoOf(unix) == IF unix = 0 THEN <<>> ELSE <<unix * 1000>>

SubscriptionCheckout(w) ==
    /\ w.body.type = "checkout.session.completed"
    /\ w.body.mode = "subscription"
    /\ w.body.user_id # Null

\* C5: a verified checkout-completed event in subscription mode with a
\* user identity in its metadata, whose subscription lookup and upsert
\* succeed, leaves exactly one Profile of that user, with plan pro, the
\* customer and subscription references of the event and the period-end
\* looked up from the referenced subscription; no other Profile changes.
C5_CheckoutUpsert ==
    [][(Served /\ Completed(wh') /\ SubscriptionCheckout(wh'))
         => LET ev == wh'.body
            IN /\ wh'.resp.status = 200
               /\ Cardinality(RowsOf(profiles', ev.user_id)) = 1
               /\ \A p \in RowsOf(profiles', ev.user_id) :
                     /\ p.plan = "pro"
                     /\ p.stripe_customer_id = ev.customer.id
                     /\ p.stripe_subscription_id = ev.subscription.id
                     /\ p.current_period_end =
                           IF ev.subscription.id = Null THEN <<>> ELSE IsoOf(wh'.retrieved)
               /\ Others(profiles', ev.user_id) = Others(profiles, ev.user_id)
      ]_vars

\* the checkout of u2 is applied while u1 has a Profile: u2 is pro with the
\* looked-up period-end, u1 is still there
C5_Witness ==
    /\ wh.n = 1 /\ Completed(wh) /\ SubscriptionCheckout(wh)
    /\ wh.body.user_id = "u2" /\ wh.retrieved = 100
    /\ \E p \in profiles : p.user_id = "u2" /\ p.plan = "pro"
                            /\ p.current_period_end = <<100000>>
    /\ \E p \in profiles : p.user_id = "u1" /\ p.plan = "free"

\* C6: when the same checkout-completed event is applied a second time, the
\* Profile of its user has the same plan (pro), customer reference,
\* subscription reference, owner and email as after the first application,
\* and the user still has exactly one Profile.
C6_CheckoutIdempotent ==
    [][(Served /\ wh.n >= 1 /\ Completed(wh) /\ Completed(wh')
          /\ SubscriptionCheckout(wh'))
         => LET u == wh'.body.user_id
            IN /\ Cardinality(RowsOf(profiles', u)) = 1
               /\ { Billing(p) : p \in RowsOf(profiles', u) }
                     = { Billing(p) : p \in RowsOf(profiles, u) }
               /\ \A p \in RowsOf(profiles', u) : p.plan = "pro"
               /\ Others(profiles', u) = Others(profiles, u)
      ]_vars

\* a checkout-completed event applied twice, at two instants
C6_Witness ==
    /\ wh.n = 2 /\ Completed(wh) /\ SubscriptionCheckout(wh)
    /\ now = 1
    /\ \E p \in profiles : p.user_id = wh.body.user_id /\ p.updated_at = 1

\* the second application leaves the whole row as it was
C6_WholeRow ==
    [][(Served /\ wh.n >= 1 /\ Completed(wh) /\ Completed(wh')
          /\ SubscriptionCheckout(wh'))
         => profiles' = profiles]_vars

Matched(rows, w) == \E p \in rows : p.stripe_customer_id = w.body.customer.id

\* C7: a verified subscription-deleted event whose customer reference
\* matches a Profile, with lookup and upsert succeeding, sets that Profile
\* to plan free with subscription reference and period-end null and keeps
\* its customer reference, owner and email; no other Profile changes; a
\* second application leaves the same plan and references.
C7_SubscriptionDeleted ==
    [][(Served /\ Completed(wh') /\ Matched(profiles, wh')
          /\ wh'.body.type = "customer.subscription.deleted")
         => \E old \in profiles :
              /\ old.stripe_customer_id = wh'.body.customer.id
              /\ wh'.resp.status = 200
              /\ Cardinality(RowsOf(profiles', old.user_id)) = 1
              /\ \A p \in RowsOf(profiles', old.user_id) :
                    /\ p.plan = "free"
                    /\ p.stripe_subscription_id = Null
                    /\ p.current_period_end = <<>>
                    /\ p.stripe_customer_id = old.stripe_customer_id
                    /\ p.email = old.email
                    /\ (wh.n >= 1 /\ Completed(wh)) => Billing(p) = Billing(old)
              /\ Others(profiles', old.user_id) = Others(profiles, old.user_id)
      ]_vars

\* a subscription-deleted event applied twice to a Profile that was pro
C7_Witness ==
    /\ wh.n = 2 /\ Completed(wh) /\ wh.body.type = "customer.subscription.deleted"
    /\ "upsert" \in wh.calls
    /\ \E p \in profiles :
          /\ p.stripe_customer_id = wh.body.customer.id
          /\ p.plan = "free" /\ p.stripe_subscription_id = Null

\* C8: a verified subscription-updated event whose customer reference
\* matches a Profile, with lookup and upsert succeeding, sets the plan to
\* pro when the status is "active" and to free for every other status, and
\* stores the period-end and the subscription id of the event, keeping the
\* customer reference, the owner and the email; no other Profile changes.
C8_SubscriptionUpdated ==
    [][(Served /\ Completed(wh') /\ Matched(profiles, wh')
          /\ wh'.body.type = "customer.subscription.updated")
         => \E old \in profiles :
              /\ old.stripe_customer_id = wh'.body.customer.id
              /\ wh'.resp.status = 200
              /\ Cardinality(RowsOf(profiles', old.user_id)) = 1
              /\ \A p \in RowsOf(profiles', old.user_id) :
                    /\ p.plan = "pro" <=> wh'.body.status = "active"
                    /\ p.plan = "free" <=> wh'.body.status # "active"
                    /\ p.stripe_subscription_id = wh'.body.id
                    /\ p.current_period_end = IsoOf(wh'.body.current_period_end)
                    /\ p.stripe_customer_id = old.stripe_customer_id
                    /\ p.email = old.email
              /\ Others(profiles', old.user_id) = Others(profiles, old.user_id)
      ]_vars

\* a subscription-updated event with a status other than active has set a
\* Profile to free and replaced its subscription reference and period-end
C8_Witness ==
    /\ wh.n = 1 /\ Completed(wh) /\ wh.body.type = "customer.subscription.updated"
    /\ "upsert" \in wh.calls
    /\ wh.body.status = "trialing"
    /\ \E p \in profiles :
          /\ p.stripe_customer_id = wh.body.customer.id
          /\ p.plan = "free" /\ p.stripe_subscription_id = wh.body.id
          /\ p.current_period_end = <<100000>>

SignatureErrors == {"Missing stripe-signature", "Invalid signature"}

\* C9: a webhook request that the configured shared secret does not verify
\* (no signature header, a signature made with another key, a signature
\* made over another body) is answered 400 with a signature error, without
\* any store or provider call and without any change of the Profiles; no
\* verified request is answered with a signature error.
C9_SignatureRejected ==
    [][Served =>
         /\ (~Genuine(wh') /\ wh'.resp.error # "Missing STRIPE_WEBHOOK_SECRET")
               => /\ wh'.resp.status = 400
                  /\ wh'.resp.error \in SignatureErrors
                  /\ wh'.calls = {}
                  /\ profiles' = profiles
         /\ ~Genuine(wh') => (wh'.calls = {} /\ profiles' = profiles)
         /\ Genuine(wh') => wh'.resp.error \notin SignatureErrors
      ]_vars

\* a body that grants pro to u2, sent with the provider's signature of
\* another body, has been rejected and u2 has no pro Profile
C9_Witness ==
    /\ wh.n >= 1 /\ wh.body = ForgedBody /\ wh.sig = Signature("whsec", OriginalBody)
    /\ wh.resp.status = 400
    /\ ~\E p \in profiles : p.user_id = "u2" /\ p.plan = "pro"
    /\ profiles # {}

\* C10 as claimed: every request whose signature verifies is answered 200
C10_AlwaysAcknowledged ==
    (wh.n >= 1 /\ Genuine(wh)) => wh.resp.status = 200

\* C10 as amended: a request whose signature verifies is answered 200 when
\* the handler completes (event applied or not actionable) and 400 when a
\* Profile lookup, a Profile upsert or the subscription lookup fails; every
\* other 400 goes to a request without a verifiable signature.
C10_AcknowledgedUnlessFailed ==
    wh.n >= 1 =>
      /\ Genuine(wh) =>
            /\ wh.resp.status \in {200, 400}
            /\ wh.resp.status = 200 <=> wh.failed = Null
            /\ wh.resp.status = 400 <=> wh.failed \in {"select", "upsert", "retrieve"}
      /\ ~Genuine(wh) => (wh.resp.status \in {400, 500} /\ wh.failed = Null)
      /\ wh.resp.status = 400 => (~Genuine(wh) \/ wh.failed # Null)

\* a verified subscription-updated event whose Profile lookup failed
C10_Witness ==
    /\ wh.n >= 1 /\ Genuine(wh) /\ wh.failed = "select" /\ wh.resp.status = 400

SubscriptionEventTypes ==
    {"customer.subscription.updated", "customer.subscription.deleted"}

\* the four kinds of verified event that the handler does not act upon; for
\* a subscription event, the lookup by customer reference returned no row
NotActionable(rows, w) ==
    \/ w.body.type = "checkout.session.completed" /\ w.body.mode # "subscription"
    \/ w.body.type = "checkout.session.completed" /\ w.body.user_id = Null
    \/ /\ w.body.type \in SubscriptionEventTypes
       /\ ~Matched(rows, w)
       /\ w.failed # "select"
    \/ w.body.type \notin SubscriptionEventTypes \cup {"checkout.session.completed"}

\* C11: a verified event that is not actionable (checkout-completed in a
\* mode other than subscription, checkout-completed without a user identity
\* in its metadata, subscription-updated or subscription-deleted whose
\* customer reference the lookup finds in no Profile, any other event type)
\* is answered 200, writes no Profile and leaves every Profile unchanged.
C11_NotActionable ==
    [][(Served /\ Genuine(wh') /\ NotActionable(profiles, wh'))
         => /\ wh'.resp.status = 200
            /\ wh'.failed = Null
            /\ "upsert" \notin wh'.calls
            /\ profiles' = profiles
      ]_vars

\* a subscription-deleted event for a customer that no Profile refers to
\* has been acknowledged while one user is pro and another has a Profile
C11_Witness ==
    /\ wh.n >= 1 /\ Genuine(wh) /\ wh.body.type = "customer.subscription.deleted"
    /\ wh.resp.status = 200 /\ wh.resp.note = "No profile for customer"
    /\ ~Matched(profiles, wh)
    /\ \E p \in profiles : p.plan = "pro"
    /\ Cardinality(profiles) = 2

-----------------------------------------------------------------------------
(* Properties of the generation endpoint: input, persistence, failures    *)

\* this step ends the request in slot r
Ends(r) == req[r].pc # "done" /\ req'[r].pc = "done"

\* C12: a request of an authenticated user within quota whose clientName or
\* notes is empty after trimming whitespace never reaches the Generative
\* Text Provider and never has a Proposal Record: no request past the
\* validation carries such a field, and no record holds one.
C12_TrimmedValidation ==
    /\ \A r \in Reqs :
          (First(r) /\ req[r].pc \in {"generate", "save"})
            => (Trim(req[r].clientName) # <<>> /\ Trim(req[r].notes) # <<>>)
    /\ \A p \in proposals : p.client_name # <<>> /\ Trim(p.notes) # <<>>

\* C12 of the fields that are empty before any trimming
C12_EmptyRejected ==
    /\ \A r \in Reqs :
          (First(r) /\ req[r].pc \in {"generate", "save"})
            => (req[r].clientName # <<>> /\ req[r].notes # <<>>)
    /\ \A p \in proposals : p.notes # <<>>

\* C13: a request that ends with 200 has inserted exactly one Proposal
\* Record, owned by the user its token resolves to, holding the trimmed
\* client name, the notes and the generated text of the request, and that
\* user's count of the current month is one higher; a request that ends
\* with any other status has inserted nothing; nothing else inserts.
C13_ExactlyOneRecord ==
    [][/\ \A r \in Reqs : (First(r) /\ Ends(r)) =>
            IF req'[r].resp.status = 200
            THEN LET q == req[r]
                     u == getUser(BearerToken(q.header))
                 IN /\ proposals \subseteq proposals'
                    /\ Cardinality(proposals' \ proposals) = 1
                    /\ \A p \in proposals' \ proposals :
                          /\ p.user_id = u
                          /\ p.client_name = Trim(q.clientName)
                          /\ p.notes = q.notes
                          /\ p.proposal = q.proposal
                          /\ p.proposal = req'[r].resp.proposal
                          /\ p.id = req'[r].resp.saved
                    /\ Cardinality(OwnThisMonth(proposals', u, now'))
                          = Cardinality(OwnThisMonth(proposals, u, now)) + 1
            ELSE /\ proposals' = proposals
                 /\ req'[r].resp.saved = 0
       /\ proposals' # proposals
            => \E r \in Reqs : First(r) /\ Ends(r) /\ req'[r].resp.status = 200
      ]_vars

\* the first request to be saved had the client name " A ": its record
\* holds "A" and the text that was answered
C13_Witness ==
    \E r \in Reqs :
        /\ First(r) /\ req[r].pc = "done" /\ req[r].resp.status = 200
        /\ nextId = 2
        /\ \E p \in proposals :
              /\ p.id = req[r].resp.saved /\ p.user_id = req[r].user
              /\ p.client_name = <<"A">> /\ p.proposal = <<"T">>
              /\ p.proposal = req[r].resp.proposal

\* C14: when the insert fails after the Generative Text Provider has
\* returned, the request ends at once with 500 "Save failed" and carries
\* neither a proposal nor a saved record; no record is inserted by that
\* step; the insert is attempted once, and the request is over after it.
C14_PersistenceFailed ==
    [][\A r \in Reqs :
         /\ (First(r) /\ req[r].pc = "save" /\ req'[r] # req[r])
               => /\ req'[r].pc = "done"
                  /\ "generate" \in req[r].calls
                  /\ "insert" \notin req[r].calls
                  /\ req'[r].failed = "insert" <=> proposals' = proposals
                  /\ req'[r].failed = "insert"
                        => /\ req'[r].resp.status = 500
                           /\ req'[r].resp.error = "Save failed"
                           /\ req'[r].resp.proposal = <<>>
                           /\ req'[r].resp.saved = 0
                           /\ nextId' = nextId
         /\ (First(r) /\ req'[r].failed = "insert")
               => (req'[r].pc = "done" /\ req'[r].resp.status = 500)
      ]_vars

\* a request whose generation returned text and whose insert failed
C14_Witness ==
    \E r \in Reqs :
        /\ First(r) /\ req[r].pc = "done" /\ req[r].failed = "insert"
        /\ req[r].calls = {"auth", "profile", "count", "generate", "insert"}
        /\ req[r].resp.status = 500
        /\ proposals = {}

\* C15: a Proposal Record is only ever persisted with text the provider
\* returned, and a request is only answered 200 with such text: a provider
\* response without generated text ends in an error like a thrown failure.
C15_GenerationFailed ==
    /\ \A p \in proposals : p.proposal # <<>>
    /\ \A r \in Reqs :
          (First(r) /\ req[r].pc = "done" /\ req[r].resp.status = 200)
            => req[r].resp.proposal # <<>>
    /\ \A r \in Reqs :
          (First(r) /\ req[r].failed = "generate")
            => (req[r].resp.status = 500 /\ "insert" \notin req[r].calls)

\* C15 of the provider failures that are thrown (timeout, provider quota)
C15_ThrownFailure ==
    \A r \in Reqs :
        (First(r) /\ req[r].failed = "generate")
          => /\ req[r].pc = "done" /\ req[r].resp.status = 500
             /\ req[r].resp.error \in {"provider message", "Unexpected error"}
             /\ "insert" \notin req[r].calls
             /\ req[r].resp.saved = 0

\* C16: a request whose Profile load or quota count query failed has ended
\* with 500 and the error of that failure ("Could not load user plan",
\* "Could not check usage"), not with 200 or 402, and has neither called
\* the Generative Text Provider nor inserted a Proposal Record.
C16_FailClosed ==
    \A r \in Reqs :
        (First(r) /\ req[r].failed \in {"profile", "count"})
          => /\ req[r].pc = "done"
             /\ req[r].resp.status = 500
             /\ req[r].resp.code = Null
             /\ req[r].resp.error = IF req[r].failed = "profile"
                                     THEN "Could not load user plan"
                                     ELSE "Could not check usage"
             /\ req[r].calls \cap {"generate", "insert"} = {}
             /\ req[r].resp.saved = 0
             /\ req[r].resp.proposal = <<>>

\* the count query of a free-plan user who is below the limit has failed
C16_Witness ==
    \E r \in Reqs :
        /\ First(r) /\ req[r].failed = "count" /\ req[r].plan = "free"
        /\ req[r].resp.error = "Could not check usage"
        /\ Used(req[r].user) = 1

-----------------------------------------------------------------------------
(* Concurrent requests of one free-plan user *)

\* the requests of user uid that have passed the quota check and not yet
\* inserted their record
Permitted(uid) ==
    { r \in Reqs : req[r].user = uid /\ req[r].pc \in {"body", "generate", "save"} }

-----------------------------------------------------------------------------
(* Ownership of the Proposal Records *)

RowsIn(s) == { s[i] : i \in DOMAIN s }

\* C18: every row that the page holds after a step is owned by the page's
\* user, and a row that enters the page's history is a stored record of
\* that user; every record that leaves the table was owned by the page's
\* user; a quota decision is the comparison of the limit with the number of
\* records of the current month owned by the request's user, whatever
\* other users own.
C18_Ownership ==
    [][/\ \A p \in RowsIn(page'.rows) : p.user_id = page'.userId
       /\ \A p \in RowsIn(page'.rows) \ RowsIn(page.rows) :
             p \in proposals /\ p.user_id = page.userId
       /\ \A p \in proposals \ proposals' :
             page.userId # Null /\ p.user_id = page.userId
       /\ \A r \in Reqs :
             (req[r].pc = "quota" /\ req'[r].pc # "quota")
               => LET own == { p \in proposals : /\ p.user_id = req[r].user
                                                 /\ p.created_at >= startOfMonth(now) }
                  IN /\ req'[r].resp.status = 402 <=> Cardinality(own) >= FREE_LIMIT
                     /\ req'[r].pc = "body" <=> Cardinality(own) < FREE_LIMIT
                     /\ req'[r].resp.status = 402 => req'[r].resp.used = Cardinality(own)
      ]_vars

\* u1 was refused a fourth record while u2 owned one, then listed its
\* history and deleted one of its records: the page shows the two that are
\* left, and the record of u2 is still stored
C18_Witness ==
    /\ page.userId = "u1" /\ Len(page.rows) = 2
    /\ nextId = 5
    /\ Cardinality(OwnedBy(proposals, "u1")) = 2
    /\ Cardinality(OwnedBy(proposals, "u2")) = 1
    /\ \E r \in Reqs : req[r].user = "u1" /\ req[r].resp.status = 402

-----------------------------------------------------------------------------
(* The plan as a trust boundary *)

PlanChanged(old, new) ==
    \E p \in old, q \in new : q.user_id = p.user_id /\ q.plan # p.plan

\* this step creates the absent Profile of one user, with plan free
FirstTouch ==
    \E u \in Users :
        /\ RowsOf(profiles, u) = {}
        /\ profiles \subseteq profiles'
        /\ Cardinality(profiles' \ profiles) = 1
        /\ \A p \in profiles' \ profiles :
              /\ p.user_id = u /\ p.plan = "free"
              /\ p.stripe_customer_id = Null /\ p.stripe_subscription_id = Null
        /\ wh' = wh /\ req' = req /\ page' = page

\* C19: over every sequence of generation, checkout-create, billing-portal,
\* webhook and first-touch requests, the plan of an existing Profile changes
\* only in a step that serves a webhook request whose signature verified;
\* every other change of the Profiles is a first-touch initialisation that
\* adds the absent Profile of a user with plan free; the steps of the
\* generation handler and of the checkout and portal requests leave the
\* Profiles unchanged.
C19_PlanOnlyByWebhook ==
    [][/\ PlanChanged(profiles, profiles') => (Served /\ Genuine(wh'))
       /\ profiles' # profiles => ((Served /\ Genuine(wh')) \/ FirstTouch)
       /\ req' # req => profiles' = profiles
       /\ page' # page => profiles' = profiles
      ]_vars

\* u1 became pro by a verified event and free again by another one; u2 got
\* its Profile by first touch; a generation request was answered and the
\* page was sent to the billing portal
C19_Witness ==
    /\ \E p \in profiles : p.user_id = "u1" /\ p.plan = "free" /\ p.stripe_customer_id = "c1"
    /\ \E p \in profiles : p.user_id = "u2" /\ p.plan = "free"
    /\ \E r \in Reqs : req[r].pc = "done" /\ req[r].resp.status = 200
    /\ page.location = "portal"

-----------------------------------------------------------------------------
(* Round trip of a generated proposal through the history *)

\* C20: the record of a request that succeeds is in every history listing
\* of its user, with the text that the request answered; a stored record
\* never changes and leaves the table only when its owner deletes it; and
\* every stored record stays in every history listing of its owner,
\* whatever is generated afterwards.
C20_RoundTrip ==
    [][/\ \A r \in Reqs :
            (First(r) /\ Ends(r) /\ req'[r].resp.status = 200)
              => \A l \in Listings(proposals', req'[r].user) :
                    \E p \in RowsIn(l) : /\ p.id = req'[r].resp.saved
                                          /\ p.proposal = req'[r].resp.proposal
       /\ \A p \in proposals :
            \/ p \in proposals'
            \/ /\ page.userId = p.user_id
               /\ \A q \in proposals' : q.id # p.id
       /\ \A u \in Users :
            \A l \in Listings(proposals', u) : OwnedBy(proposals', u) \subseteq RowsIn(l)
      ]_vars

-----------------------------------------------------------------------------
(* The last event wins *)

\* the plan that an actionable event stands for
EventPlan(ev) ==
    IF ev.type = "checkout.session.completed" THEN "pro"
    ELSE IF ev.type = "customer.subscription.updated"
    THEN (IF ev.status = "active" THEN "pro" ELSE "free")
    ELSE "free"

\* the handler acts upon the event: a subscription checkout with a user
\* identity, or a subscription event whose customer a Profile refers to
Actionable(rows, w) ==
    \/ SubscriptionCheckout(w)
    \/ w.body.type \in SubscriptionEventTypes /\ Matched(rows, w)

TargetUsers(rows, w) ==
    IF w.body.type = "checkout.session.completed" THEN { w.body.user_id }
    ELSE { p.user_id : p \in { q \in rows : q.stripe_customer_id = w.body.customer.id } }

Plans(rows) == { <<p.user_id, p.plan>> : p \in rows }

\* C21: a verified event that is actionable and is processed without a
\* failing call leaves the Profile it is applied to with the plan of that
\* event alone (checkout-completed: pro; subscription-updated: pro exactly
\* when the status is active; subscription-deleted: free), whatever the
\* Profile held and whichever event was applied before; every other
\* delivery leaves all plans as they are.
C21_LastEventWins ==
    [][Served =>
         IF Completed(wh') /\ Actionable(profiles, wh')
         THEN /\ TargetUsers(profiles, wh') = { wh'.applied.user }
              /\ \A u \in TargetUsers(profiles, wh') :
                    /\ RowsOf(profiles', u) # {}
                    /\ \A p \in RowsOf(profiles', u) : p.plan = EventPlan(wh'.body)
                    /\ Plans(Others(profiles', u)) = Plans(Others(profiles, u))
         ELSE /\ Plans(profiles') = Plans(profiles)
              /\ wh'.applied = NoApplied
      ]_vars

\* a checkout-completed event of a user was applied right after a
\* subscription-deleted event had set that user's Profile to free: the
\* Profile is pro again
C21_Witness ==
    /\ Completed(wh) /\ SubscriptionCheckout(wh)
    /\ wh.applied.user = wh.body.user_id
    /\ wh.before = Applied("customer.subscription.deleted", wh.body.user_id)
    /\ \A p \in RowsOf(profiles, wh.body.user_id) : p.plan = "pro"
    /\ RowsOf(profiles, wh.body.user_id) # {}

-----------------------------------------------------------------------------
(* The quota over the months *)

MonthOf(t) == t \div TicksPerMonth

\* the records of user uid among rows that were created in the calendar
\* month of instant t
InMonth(rows, uid, t) ==
    { p \in rows : p.user_id = uid /\ MonthOf(p.created_at) = MonthOf(t) }

\* C22: while a user's plan is free and the user's requests are served one
\* after another, the user owns at most 3 Proposal Records created in the
\* current calendar month; that number goes down only in a step in which
\* the page of that user deletes a record or the month changes; and the
\* quota check lets a request of the user pass exactly when the number is
\* below 3, so after a deletion or a month change the user can generate
\* again until the number is 3.
C22_MonthlyQuota ==
    [][\A u \in Users :
         LET n == Cardinality(InMonth(proposals, u, now))
             m == Cardinality(InMonth(proposals', u, now'))
         IN /\ m <= FREE_LIMIT
            /\ m < n => \/ MonthOf(now') # MonthOf(now)
                         \/ /\ page.userId = u
                            /\ proposals' # proposals /\ proposals' \subseteq proposals
            /\ m > n => m = n + 1
            /\ \A r \in Reqs :
                  (req[r].user = u /\ req[r].pc = "quota" /\ req'[r].pc # "quota"
                     /\ req'[r].failed = Null)
                    => /\ req'[r].pc = "body" <=> n < FREE_LIMIT
                       /\ req'[r].resp.status = 402 <=> n = FREE_LIMIT
      ]_vars

\* u1 has generated five times and deleted one record: three records of
\* the first month are left, and the fifth was created in the second month
C22_Witness ==
    /\ page.userId = "u1"
    /\ nextId = 6
    /\ MonthOf(now) = 1
    /\ Cardinality(InMonth(proposals, "u1", 0)) = 3
    /\ Cardinality(OwnedBy(proposals, "u1")) = 4
    /\ \E r \in Reqs : /\ req[r].user = "u1" /\ req[r].resp.status = 200
                        /\ req[r].resp.saved = 5

-----------------------------------------------------------------------------
(* Properties of the checkout-session-create endpoints *)

\* the session the page was given was created with both inputs and carries
\* the requesting user in its metadata
CarriesUser(session, uid) ==
    /\ session.customer_email # Null
    /\ uid # Null
    /\ session.user_id = uid

\* this step serves the checkout-completed event of the page's session
SessionCompleted ==
    /\ Served
    /\ page.session # NoSession
    /\ Genuine(wh')
    /\ \E c \in Customers : wh'.body = CompletedEvent(page.session, c, "s2")

\* the event made exactly the Profile of uid pro, or stopped at a failing
\* store or provider call; it never ended in the missing-identity note
UpgradesExactly(uid) ==
    /\ wh'.resp.note # "Missing session.metadata.user_id"
    /\ Completed(wh') =>
          /\ Cardinality(RowsOf(profiles', uid)) = 1
          /\ \A p \in RowsOf(profiles', uid) : p.plan = "pro"
          /\ Others(profiles', uid) = Others(profiles, uid)

\* C23: every checkout session created by a checkout-session-create
\* endpoint exists only when both email and userId were supplied and has
\* the requesting userId as user_id in its metadata; when its verified
\* checkout-completed event is processed, exactly the Profile of that user
\* becomes pro, and the event never ends in the "Missing
\* session.metadata.user_id" no-op.
C23_SessionCarriesUser ==
    [][/\ page'.session # NoSession => CarriesUser(page'.session, page'.userId)
       /\ SessionCompleted => UpgradesExactly(page.userId)
      ]_vars

\* the same, for the sessions created by the endpoint of part_000
C23_PageEndpoint ==
    [][/\ page'.session.via = "part_000"
            => CarriesUser(page'.session, page'.userId)
       /\ (SessionCompleted /\ page.session.via = "part_000")
            => UpgradesExactly(page.userId)
      ]_vars

\* the session u2 got from the endpoint of part_000 was paid: its
\* event made u2 pro while u1 stays free
C23_PageEndpointWitness ==
    /\ page.userId = "u2"
    /\ page.session = Session("part_000", "subscription", Email, "u2")
    /\ wh.n = 1 /\ Completed(wh) /\ wh.body.user_id = "u2"
    /\ IsPro("u2") /\ ~IsPro("u1") /\ RowsOf(profiles, "u1") # {}

\* a session of stripe/checkout/route.ts, created without email and user
\* identity, was paid: its event ended in the no-op and nobody is pro
C23_NoOpReached ==
    /\ page.session = Session("stripe/checkout/route.ts", "subscription", Null, Null)
    /\ wh.n = 1 /\ Genuine(wh)
    /\ wh.resp = WebhookResponse(200, Null, "Missing session.metadata.user_id")
    /\ \A u \in Users : ~IsPro(u)

====
